---- MODULE Spec2Model ----
(***************************************************************************)
(* Model of package cmd of go-micro-api: the assembly of the API gateway   *)
(* in cmd.Before, the start / wait-for-signal / stop lifecycle of          *)
(* cmd.Action, the exit path of Run, and the CORS middleware.              *)
(***************************************************************************)
EXTENDS Integers, Sequences, FiniteSets, TLC

VARIABLES
    flags,        \* cli.Context: the five string flags as parsed
    Routers,      \* c.opts.Routers   : name -> factory
    Resolvers,    \* c.opts.Resolvers : name -> factory
    Handlers,     \* c.opts.Handlers  : name -> factory
    pc,           \* position of the main goroutine
    address,      \* Before: local address
    resolverOpts, \* Before: local resolverOpts
    newRouter,    \* Before: local newRouter
    newResolver,  \* Before: local newResolver
    newHandler,   \* Before: local newHandler
    Server,       \* c.opts.Server
    fatalMsg,     \* what log.Fatalf printed, <<>> when nothing
    beforeResult, \* what Before returned
    startRet,     \* what Server.Start returned
    stopRet,      \* what Server.Stop returned
    startCalls,   \* number of calls of Server.Start
    stopCalls,    \* number of calls of Server.Stop
    listening,    \* the server holds its listening socket
    registered,   \* signal.Notify(quit, SIGINT, SIGTERM) is in force
    quit,         \* the channel quit, capacity 1
    received,     \* signals taken from quit by <-quit
    delivered,    \* signals the process was sent, in order
    discarded,    \* signals dropped because quit was full
    actionResult, \* what Action returned
    exitCode,     \* exit status of the process, -1 while it runs
    killedAt,     \* where the main goroutine was when a signal ended the process
    reqMethod,    \* middleware: method of the last request
    hdr,          \* middleware: header map of the last response
    status,       \* middleware: status code of the last response, 0 = not written
    wrappedCalls, \* middleware: invocations of the wrapped handler
    hdrAtCall,    \* middleware: header map the wrapped handler saw when last invoked
    served        \* middleware: requests served

bootVars == <<flags, Routers, Resolvers, Handlers, address, resolverOpts,
              newRouter, newResolver, newHandler, Server, fatalMsg, beforeResult>>
lifeVars == <<startRet, stopRet, startCalls, stopCalls, listening, registered, quit, received,
              delivered, discarded, actionResult, exitCode, killedAt>>
httpVars == <<reqMethod, hdr, status, wrappedCalls, hdrAtCall, served>>
vars == <<pc, bootVars, lifeVars, httpVars>>

Nil == "nil"
Pending == "pending"

\* ---------------------------------------------------------------- bounds

MaxSignals == 2
MaxRequests == 3

\* ------------------------------------------------------- strategy registry

RegistryNewRouter == "registry.NewRouter"
VpathNewResolver == "vpath.NewResolver"
RpcNewHandler == "rpc.NewHandler"

DefaultRouters ==
    [k \in {"registry", "static"} |->
        IF k = "registry" THEN RegistryNewRouter ELSE "static.NewRouter"]

DefaultResolvers ==
    [k \in {"grpc", "host", "path", "vpath"} |->
        CASE k = "grpc" -> "grpc.NewResolver"
          [] k = "host" -> "host.NewResolver"
          [] k = "path" -> "path.NewResolver"
          [] OTHER      -> VpathNewResolver]

DefaultHandlers ==
    [k \in {"api", "event", "http", "rpc", "web"} |->
        CASE k = "api"   -> "api.NewHandler"
          [] k = "event" -> "event.NewHandler"
          [] k = "http"  -> "http.NewHandler"
          [] k = "rpc"   -> RpcNewHandler
          [] OTHER       -> "web.NewHandler"]

\* The flag values of DefaultFlags.
DefaultFlags ==
    [server_address |-> ":8080", namespace |-> "go.micro",
     router |-> "registry", resolver |-> "vpath", handler |-> "rpc"]

\* An Option of the embedding application applied to a registry map:
\* the map left alone, emptied, entry k replaced by the factory f, entry k removed.
Without(m, k) == [x \in DOMAIN m \ {k} |-> m[x]]
With(m, k, f) == [x \in DOMAIN m \cup {k} |-> IF x = k THEN f ELSE m[x]]
EmptyRegistry == [x \in {} |-> ""]
Registries(m, k, f) == {m, EmptyRegistry, With(m, k, f), Without(m, k)}

RouterKinds == {"", "registry", "static", "doesnotexist"}
ResolverKinds == {"", "vpath", "host", "doesnotexist"}
HandlerKinds == {"", "rpc", "api", "doesnotexist"}
Namespaces == {"", "go.micro", "acme"}
Addresses == {"", ":8080", ":9090", "256.0.0.1:http:x"}

\* An address net.Listen rejects whatever the state of the host.
Malformed(a) == a = "256.0.0.1:http:x"

\* ------------------------------------------------------------------- Init

\* The middleware has served nothing.
HttpIdle ==
    /\ reqMethod = ""
    /\ hdr = [x \in {} |-> <<>>]
    /\ status = 0
    /\ wrappedCalls = 0
    /\ hdrAtCall = [x \in {} |-> <<>>]
    /\ served = 0

\* newCmd has built the command from the default registries and the Options of
\* the embedding application, cli has parsed the flags, and Before is entered:
\* its locals hold their declared values.
Init ==
    /\ flags \in [server_address : Addresses, namespace : Namespaces,
                  router : RouterKinds, resolver : ResolverKinds,
                  handler : HandlerKinds]
    /\ Routers \in Registries(DefaultRouters, "registry", "custom.NewRouter")
    /\ Resolvers \in Registries(DefaultResolvers, "vpath", "custom.NewResolver")
    /\ Handlers \in Registries(DefaultHandlers, "rpc", "custom.NewHandler")
    /\ pc = "before_address"
    /\ address = ":8080"
    /\ resolverOpts = <<>>
    /\ newRouter = RegistryNewRouter
    /\ newResolver = VpathNewResolver
    /\ newHandler = RpcNewHandler
    /\ Server = <<>>
    /\ fatalMsg = <<>>
    /\ beforeResult = Pending
    /\ startRet = Pending
    /\ stopRet = Pending
    /\ startCalls = 0
    /\ stopCalls = 0
    /\ listening = FALSE
    /\ registered = FALSE
    /\ quit = <<>>
    /\ received = <<>>
    /\ delivered = <<>>
    /\ discarded = <<>>
    /\ actionResult = Pending
    /\ exitCode = -1
    /\ killedAt = ""
    /\ HttpIdle

\* ------------------------------------------------------------ cmd.Before

\* ctx.String(name): the flag as parsed, the empty string included.
CtxString_Defaulted(name) ==
    IF flags[name] = "" THEN DefaultFlags[name] ELSE flags[name]
CtxString(name) == flags[name]

\* r, ok := m[arg]: the comma-ok lookup in a registry map.
Lookup_AlwaysOk(m, arg) ==
    [ok |-> TRUE, f |-> IF arg \in DOMAIN m THEN m[arg] ELSE Nil]
Lookup(m, arg) ==
    [ok |-> arg \in DOMAIN m, f |-> IF arg \in DOMAIN m THEN m[arg] ELSE Nil]

\* resolverOpts = append(resolverOpts, resolver.WithHandler(arg))
WithHandler_Dropped(opts, arg) == opts
WithHandler(opts, arg) == Append(opts, [opt |-> "WithHandler", arg |-> arg])

\* resolverOpts = append(resolverOpts, resolver.WithNamespace(resolver.StaticNamespace(arg)))
WithNamespace(opts, arg) == Append(opts, [opt |-> "WithNamespace", arg |-> arg])

\* log.Fatalf(format, arg): print the diagnostic, then os.Exit(1).
Fatalf(axis, arg) ==
    /\ fatalMsg' = <<axis, arg>>
    /\ exitCode' = 1
    /\ pc' = "fatal"

\* if arg := ctx.String("server_address"); len(arg) > 0 { address = arg }
BeforeAddress ==
    /\ pc = "before_address"
    /\ LET arg == CtxString("server_address") IN
       address' = IF arg # "" THEN arg ELSE address
    /\ pc' = "before_namespace"
    /\ UNCHANGED <<flags, Routers, Resolvers, Handlers, resolverOpts, newRouter,
                   newResolver, newHandler, Server, fatalMsg, beforeResult,
                   lifeVars, httpVars>>

\* if arg := ctx.String("namespace"); len(arg) > 0 { append WithNamespace(StaticNamespace(arg)) }
BeforeNamespace ==
    /\ pc = "before_namespace"
    /\ LET arg == CtxString("namespace") IN
       resolverOpts' = IF arg # "" THEN WithNamespace(resolverOpts, arg)
                       ELSE resolverOpts
    /\ pc' = "before_router"
    /\ UNCHANGED <<flags, Routers, Resolvers, Handlers, address, newRouter,
                   newResolver, newHandler, Server, fatalMsg, beforeResult,
                   lifeVars, httpVars>>

\* if arg := ctx.String("router"); len(arg) > 0 { lookup in c.opts.Routers, or Fatalf }
BeforeRouter ==
    /\ UNCHANGED killedAt
    /\ pc = "before_router"
    /\ LET arg == CtxString("router") IN
       IF arg # ""
       THEN IF Lookup(Routers, arg).ok
            THEN /\ newRouter' = Lookup(Routers, arg).f
                 /\ pc' = "before_handler"
                 /\ UNCHANGED <<fatalMsg, exitCode>>
            ELSE /\ Fatalf("Router", arg)
                 /\ UNCHANGED newRouter
       ELSE /\ pc' = "before_handler"
            /\ UNCHANGED <<newRouter, fatalMsg, exitCode>>
    /\ UNCHANGED <<flags, Routers, Resolvers, Handlers, address, resolverOpts,
                   newResolver, newHandler, Server, beforeResult, httpVars,
                   startRet, stopRet, startCalls, stopCalls, listening, registered,
                   quit, received, delivered, discarded, actionResult>>

\* if arg := ctx.String("handler"); len(arg) > 0 { append WithHandler(arg);
\* lookup in c.opts.Handlers, or Fatalf }
BeforeHandler ==
    /\ UNCHANGED killedAt
    /\ pc = "before_handler"
    /\ LET arg == CtxString("handler") IN
       IF arg # ""
       THEN /\ resolverOpts' = WithHandler(resolverOpts, arg)
            /\ IF Lookup(Handlers, arg).ok
               THEN /\ newHandler' = Lookup(Handlers, arg).f
                    /\ pc' = "before_resolver"
                    /\ UNCHANGED <<fatalMsg, exitCode>>
               ELSE /\ Fatalf("Handler", arg)
                    /\ UNCHANGED newHandler
       ELSE /\ pc' = "before_resolver"
            /\ UNCHANGED <<resolverOpts, newHandler, fatalMsg, exitCode>>
    /\ UNCHANGED <<flags, Routers, Resolvers, Handlers, address, newRouter,
                   newResolver, Server, beforeResult, httpVars,
                   startRet, stopRet, startCalls, stopCalls, listening, registered,
                   quit, received, delivered, discarded, actionResult>>

\* if arg := ctx.String("resolver"); len(arg) > 0 { lookup in c.opts.Resolvers, or Fatalf }
BeforeResolver ==
    /\ UNCHANGED killedAt
    /\ pc = "before_resolver"
    /\ LET arg == CtxString("resolver") IN
       IF arg # ""
       THEN IF Lookup(Resolvers, arg).ok
            THEN /\ newResolver' = Lookup(Resolvers, arg).f
                 /\ pc' = "before_assemble"
                 /\ UNCHANGED <<fatalMsg, exitCode>>
            ELSE /\ Fatalf("Resolver", arg)
                 /\ UNCHANGED newResolver
       ELSE /\ pc' = "before_assemble"
            /\ UNCHANGED <<newResolver, fatalMsg, exitCode>>
    /\ UNCHANGED <<flags, Routers, Resolvers, Handlers, address, resolverOpts,
                   newRouter, newHandler, Server, beforeResult, httpVars,
                   startRet, stopRet, startCalls, stopCalls, listening, registered,
                   quit, received, delivered, discarded, actionResult>>

\* newResolver(resolverOpts...)
NewResolver(factory, opts) == [factory |-> factory, opts |-> opts]
\* newRouter(routerOpts...), routerOpts = [router.WithResolver(resolver)]
NewRouter(factory, resolver) == [factory |-> factory, resolver |-> resolver]
\* newHandler(handlerOpts...), handlerOpts = [handler.WithRouter(router)]
NewHandler(factory, router) == [factory |-> factory, router |-> router]
\* CorsMiddleware(handler)
CorsMiddleware(handler) == [middleware |-> "cors", wrapped |-> handler]
\* newServer(address) and srv.Handle("/", h)
NewServer(addr, h) == [address |-> addr, path |-> "/", handler |-> h]

\* The pipeline Before assembles from its locals.
Assemble ==
    NewServer(address,
        CorsMiddleware(
            NewHandler(newHandler,
                NewRouter(newRouter, NewResolver(newResolver, resolverOpts)))))

\* Lines 190-197: build resolver, router, handler, server; store the server; return nil.
BeforeAssemble ==
    /\ pc = "before_assemble"
    /\ Server' = <<Assemble>>
    /\ beforeResult' = Nil
    /\ pc' = "action"
    /\ UNCHANGED <<flags, Routers, Resolvers, Handlers, address, resolverOpts,
                   newRouter, newResolver, newHandler, fatalMsg, lifeVars, httpVars>>

\* ------------------------------------------------------------ cmd.Action

Signals == {"SIGINT", "SIGTERM"}

\* What Server.Start can return for a server built on addr: an error whenever
\* the listener cannot be opened, nil only for an address that can be bound.
StartResults(addr) ==
    IF Malformed(addr) THEN {"listen: bad address"}
    ELSE {Nil, "listen: address already in use"}

\* What Server.Stop can return.
StopResults == {Nil, "stop: listener already closed"}

\* if err := (*c.opts.Server).Start(); err != nil
StartFailed_Ignored(err) == FALSE
StartFailed(err) == err # Nil

\* if err := (*c.opts.Server).Stop(); err != nil
StopFailed_Ignored(err) == FALSE
StopFailed(err) == err # Nil

\* make(chan os.Signal, 1): the capacity of quit.
QuitCap_Unbuffered == 1 - 1
QuitCap == 1

\* Line 201: (*c.opts.Server).Start() is called.
ActionStart ==
    /\ UNCHANGED killedAt
    /\ pc = "action"
    /\ startCalls' = startCalls + 1
    /\ pc' = "starting"
    /\ UNCHANGED <<bootVars, httpVars, startRet, stopRet, stopCalls, listening,
                   registered, quit, received, delivered, discarded,
                   actionResult, exitCode>>

\* Lines 201-203: Start returns; on an error Action returns it.
StartReturn ==
    /\ UNCHANGED killedAt
    /\ pc = "starting"
    /\ \E r \in StartResults(Server[1].address) :
          /\ startRet' = r
          /\ listening' = (r = Nil)
          /\ IF StartFailed(r)
             THEN /\ actionResult' = r
                  /\ pc' = "returned"
             ELSE /\ actionResult' = actionResult
                  /\ pc' = "notify"
    /\ UNCHANGED <<bootVars, httpVars, stopRet, startCalls, stopCalls,
                   registered, quit, received, delivered, discarded, exitCode>>

\* Lines 206-207: quit := make(chan os.Signal, 1); signal.Notify(quit, SIGINT, SIGTERM).
ActionNotify ==
    /\ UNCHANGED killedAt
    /\ pc = "notify"
    /\ quit' = <<>>
    /\ registered' = TRUE
    /\ pc' = "wait"
    /\ UNCHANGED <<bootVars, httpVars, startRet, stopRet, startCalls, stopCalls,
                   listening, received, delivered, discarded, actionResult,
                   exitCode>>

\* A receive that does not block: select { case <-quit: default: }.
ActionWait_NoBlock ==
    /\ UNCHANGED killedAt
    /\ pc = "wait"
    /\ received' = IF Len(quit) > 0 THEN Append(received, Head(quit)) ELSE received
    /\ quit' = IF Len(quit) > 0 THEN Tail(quit) ELSE quit
    /\ pc' = "stop"
    /\ UNCHANGED <<bootVars, httpVars, startRet, stopRet, startCalls, stopCalls,
                   listening, registered, delivered, discarded, actionResult,
                   exitCode>>

\* Line 208: <-quit blocks until the channel holds a signal and takes it.
ActionWait ==
    /\ UNCHANGED killedAt
    /\ pc = "wait"
    /\ Len(quit) > 0
    /\ received' = Append(received, Head(quit))
    /\ quit' = Tail(quit)
    /\ pc' = "stop"
    /\ UNCHANGED <<bootVars, httpVars, startRet, stopRet, startCalls, stopCalls,
                   listening, registered, delivered, discarded, actionResult,
                   exitCode>>

\* Line 210: (*c.opts.Server).Stop() is called.
ActionStop ==
    /\ UNCHANGED killedAt
    /\ pc = "stop"
    /\ stopCalls' = stopCalls + 1
    /\ pc' = "stopping"
    /\ UNCHANGED <<bootVars, httpVars, startRet, stopRet, startCalls, listening,
                   registered, quit, received, delivered, discarded,
                   actionResult, exitCode>>

\* Lines 210-214: Stop returns; Action returns its error, or nil.
StopReturn ==
    /\ UNCHANGED killedAt
    /\ pc = "stopping"
    /\ \E r \in StopResults :
          /\ stopRet' = r
          /\ actionResult' = IF StopFailed(r) THEN r ELSE Nil
    /\ listening' = FALSE
    /\ pc' = "returned"
    /\ UNCHANGED <<bootVars, httpVars, startRet, startCalls, stopCalls,
                   registered, quit, received, delivered, discarded, exitCode>>

\* ------------------------------------------------------------------- Run

\* Lines 234-237: App().Run returned what Action returned; a non-nil error is
\* logged and the process exits with os.Exit(-1), status 255; otherwise Run
\* returns and the process exits with status 0.
RunExit ==
    /\ UNCHANGED killedAt
    /\ pc = "returned"
    /\ exitCode' = IF actionResult # Nil THEN 255 ELSE 0
    /\ listening' = FALSE
    /\ pc' = "exited"
    /\ UNCHANGED <<bootVars, httpVars, startRet, stopRet, startCalls, stopCalls,
                   registered, quit, received, delivered, discarded,
                   actionResult>>

\* ----------------------------------------------------------- environment

Alive == pc \notin {"fatal", "killed", "exited"}

\* The process is sent SIGINT or SIGTERM.  Once signal.Notify is in force the
\* signal is sent to quit without blocking: kept when the one slot is free,
\* dropped when it is taken.  Before that the signal has its default
\* disposition and ends the process, whose status is 128 + the signal number.
Signal(s) ==
    /\ Alive
    /\ Len(delivered) < MaxSignals
    /\ delivered' = Append(delivered, s)
    /\ IF registered
       THEN /\ IF Len(quit) < QuitCap
               THEN quit' = Append(quit, s) /\ UNCHANGED discarded
               ELSE discarded' = Append(discarded, s) /\ UNCHANGED quit
            /\ UNCHANGED <<pc, exitCode, listening, killedAt>>
       ELSE /\ pc' = "killed"
            /\ killedAt' = pc
            /\ exitCode' = 128 + (IF s = "SIGINT" THEN 2 ELSE 15)
            /\ listening' = FALSE
            /\ UNCHANGED <<quit, discarded>>
    /\ UNCHANGED <<bootVars, httpVars, startRet, stopRet, startCalls, stopCalls,
                   registered, received, actionResult>>

\* ------------------------------------------------------------------ Spec

Next ==
    \/ BeforeAddress
    \/ BeforeNamespace
    \/ BeforeRouter
    \/ BeforeHandler
    \/ BeforeResolver
    \/ BeforeAssemble
    \/ ActionStart
    \/ StartReturn
    \/ ActionNotify
    \/ ActionWait
    \/ ActionStop
    \/ StopReturn
    \/ RunExit
    \/ \E s \in Signals : Signal(s)

Spec == Init /\ [][Next]_vars

\* -------------------------------------------------------- CorsMiddleware

MethodOptions == "OPTIONS"
StatusOK == 200

Methods == {"GET", "POST", "PUT", "DELETE", MethodOptions, "options"}

\* What the wrapped handler may write as its status.
Outcomes == {200, 404, 500}

\* http.Header.Set(key, value): the key's values become the one value.
Set(h, k, v) == [x \in DOMAIN h \cup {k} |-> IF x = k THEN <<v>> ELSE h[x]]

\* Four of the five Header().Set calls: Access-Control-Allow-Credentials is not set.
SetCorsHeaders_Four(h) ==
    Set(Set(Set(Set(h,
        "Access-Control-Allow-Origin", "*"),
        "Access-Control-Allow-Headers",
        "Content-Type,AccessToken,X-CSRF-Token,Authorization,Token,X-Token,X-User-Id"),
        "Access-Control-Allow-Methods", "POST,GET,OPTIONS,DELETE,PUT"),
        "Access-Control-Expose-Headers",
        "Content-Length,Access-Control-Allow-Origin,Access-Control-Allow-Headers,Content-Type")

\* Lines 7-11 of CorsMiddleware: the five Header().Set calls, in order.
SetCorsHeaders(h) ==
    Set(Set(Set(Set(Set(h,
        "Access-Control-Allow-Origin", "*"),
        "Access-Control-Allow-Headers",
        "Content-Type,AccessToken,X-CSRF-Token,Authorization,Token,X-Token,X-User-Id"),
        "Access-Control-Allow-Methods", "POST,GET,OPTIONS,DELETE,PUT"),
        "Access-Control-Expose-Headers",
        "Content-Length,Access-Control-Allow-Origin,Access-Control-Allow-Headers,Content-Type"),
        "Access-Control-Allow-Credentials", "true")

\* The method compared without regard to case.
IsPreflight_AnyCase(method) == method \in {MethodOptions, "options"}

\* The test of line 12: request.Method == http.MethodOptions.
IsPreflight(method) == method = MethodOptions

\* The header map of a ResponseWriter nothing has written to.
NoHeader == [x \in {} |-> <<>>]

\* The wrapped handler, an external collaborator: it adds its own header and
\* writes the status o.
WrappedServeHTTP(h, o) ==
    [hdr |-> Set(h, "Content-Type", "application/json"), status |-> o]

\* The handler CorsMiddleware returns, serving a request with a fresh
\* ResponseWriter while the server listens.
ServeHTTP(method, o) ==
    /\ listening
    /\ Len(Server) = 1 /\ Server[1].handler.middleware = "cors"
    /\ served < MaxRequests
    /\ served' = served + 1
    /\ reqMethod' = method
    /\ LET h == SetCorsHeaders(NoHeader) IN
       IF IsPreflight(method)
       THEN /\ hdr' = h
            /\ status' = StatusOK
            /\ UNCHANGED <<wrappedCalls, hdrAtCall>>
       ELSE /\ wrappedCalls' = wrappedCalls + 1
            /\ hdrAtCall' = h
            /\ hdr' = WrappedServeHTTP(h, o).hdr
            /\ status' = WrappedServeHTTP(h, o).status
    /\ UNCHANGED <<pc, bootVars, lifeVars>>

\* The command as Run uses it: DefaultCmd, built by newCmd() with no Option,
\* and the flags at the values DefaultFlags gives them.
DefaultInit ==
    /\ Init
    /\ flags = DefaultFlags
    /\ Routers = DefaultRouters
    /\ Resolvers = DefaultResolvers
    /\ Handlers = DefaultHandlers

ServeNext ==
    \/ Next
    \/ \E m \in Methods, o \in Outcomes : ServeHTTP(m, o)

\* The gateway in its default configuration, serving requests while it runs.
ServeSpec == DefaultInit /\ [][ServeNext]_vars

\* The main goroutine is scheduled until it blocks or the process ends, and
\* the calls of Start and Stop return; signals arrive or not.
Main ==
    \/ BeforeAddress
    \/ BeforeNamespace
    \/ BeforeRouter
    \/ BeforeHandler
    \/ BeforeResolver
    \/ BeforeAssemble
    \/ ActionStart
    \/ StartReturn
    \/ ActionNotify
    \/ ActionWait
    \/ ActionStop
    \/ StopReturn
    \/ RunExit

\* The command Run runs: DefaultCmd, whose registries no Option has changed,
\* under every combination of flag values.
FairInit ==
    /\ Init
    /\ Routers = DefaultRouters
    /\ Resolvers = DefaultResolvers
    /\ Handlers = DefaultHandlers

FairSpec == FairInit /\ [][Next]_vars /\ WF_vars(Main)

\* ===================================================================
\* Properties
\* ===================================================================

BeforePcs == {"before_address", "before_namespace", "before_router",
              "before_handler", "before_resolver", "before_assemble"}
ActionPcs == {"action", "starting", "notify", "wait", "stop", "stopping",
              "returned", "exited"}

\* Where the main goroutine is, or was when the process was killed.
At == IF pc = "killed" THEN killedAt ELSE pc

\* A kind string its axis accepts: empty, or a key of the axis' registry map.
Known(kind, registry) == kind = "" \/ kind \in DOMAIN registry

AllKnown ==
    /\ Known(flags.router, Routers)
    /\ Known(flags.handler, Handlers)
    /\ Known(flags.resolver, Resolvers)

\* The parts of the stored server.
SrvHandler == Server[1].handler.wrapped
SrvRouter == SrvHandler.router
SrvResolver == SrvRouter.resolver

\* C1: Before completes (returns nil with a server stored) exactly when every
\* non-empty kind string is a key of its axis' registry map; otherwise the
\* process ends in log.Fatalf with a diagnostic naming an unknown value of its
\* axis, no server is stored and Start is never called.
C1_BeforeCompletesIffKnown ==
    /\ (beforeResult = Nil) <=> (Len(Server) = 1)
    /\ beforeResult = Nil => AllKnown
    /\ At \in ActionPcs => beforeResult = Nil
    /\ AllKnown => pc # "fatal" /\ fatalMsg = <<>>
    /\ ~AllKnown => /\ Server = <<>> /\ beforeResult = Pending
                    /\ startCalls = 0 /\ ~listening
                    /\ At \in BeforePcs \cup {"fatal"}
    /\ pc = "fatal" =>
          /\ ~AllKnown
          /\ exitCode = 1
          /\ \/ fatalMsg = <<"Router", flags.router>>
                   /\ ~Known(flags.router, Routers)
             \/ fatalMsg = <<"Handler", flags.handler>>
                   /\ ~Known(flags.handler, Handlers)
             \/ fatalMsg = <<"Resolver", flags.resolver>>
                   /\ ~Known(flags.resolver, Resolvers)
    \* the axis after the last one checked decides: once past it, it was known
    /\ At \in {"before_handler", "before_resolver", "before_assemble"}
          => Known(flags.router, Routers)
    /\ At \in {"before_resolver", "before_assemble"}
          => Known(flags.handler, Handlers)
    /\ At = "before_assemble" => Known(flags.resolver, Resolvers)

\* C1 witnesses: a fatal end on an entry removed from the registry, after the
\* router axis passed.
C1_Witness ==
    /\ pc = "fatal"
    /\ fatalMsg = <<"Handler", "rpc">>
    /\ flags.router = "static"

\* C2: an empty kind string selects the axis' built-in factory whatever the
\* registry holds, and raises no fatal error for that axis.
C2_EmptyKindUsesBuiltin ==
    /\ flags.router = "" =>
          /\ newRouter = RegistryNewRouter
          /\ fatalMsg # <<>> => fatalMsg[1] # "Router"
          /\ Len(Server) = 1 => SrvRouter.factory = RegistryNewRouter
    /\ flags.handler = "" =>
          /\ newHandler = RpcNewHandler
          /\ fatalMsg # <<>> => fatalMsg[1] # "Handler"
          /\ Len(Server) = 1 => SrvHandler.factory = RpcNewHandler
    /\ flags.resolver = "" =>
          /\ newResolver = VpathNewResolver
          /\ fatalMsg # <<>> => fatalMsg[1] # "Resolver"
          /\ Len(Server) = 1 => SrvResolver.factory = VpathNewResolver

\* C2 witness: all three kinds empty, over an empty router registry, a handler
\* registry whose "rpc" entry was replaced and a resolver registry without "vpath".
C2_Witness ==
    /\ Len(Server) = 1
    /\ flags.router = "" /\ Routers = EmptyRegistry
    /\ flags.handler = "" /\ Handlers = With(DefaultHandlers, "rpc", "custom.NewHandler")
    /\ flags.resolver = "" /\ "vpath" \notin DOMAIN Resolvers

HasOpt(opts, o, a) == \E i \in DOMAIN opts : opts[i] = [opt |-> o, arg |-> a]
HasOptNamed(opts, o) == \E i \in DOMAIN opts : opts[i].opt = o

\* C3 as stated: whenever the resolver is constructed, its option list carries
\* the configured handler kind as handler tag and the configured namespace as
\* static namespace, for every handler kind and namespace value.
C3_Original ==
    Len(Server) = 1 =>
        /\ HasOpt(SrvResolver.opts, "WithHandler", flags.handler)
        /\ HasOpt(SrvResolver.opts, "WithNamespace", flags.namespace)

\* C3 amended: the resolver's option list carries the handler kind and the
\* namespace exactly when they are non-empty (an empty one adds no option); a
\* handler tag that is given names the registry entry whose factory builds the
\* handler; and when the resolver is about to be constructed the handler kind
\* has been resolved and its tag is already among the options.
C3_ThreadedWhenNonEmpty ==
    /\ Len(Server) = 1 =>
          /\ flags.handler # "" =>
                /\ HasOpt(SrvResolver.opts, "WithHandler", flags.handler)
                /\ SrvHandler.factory = Handlers[flags.handler]
          /\ flags.handler = "" => ~HasOptNamed(SrvResolver.opts, "WithHandler")
          /\ flags.namespace # "" =>
                HasOpt(SrvResolver.opts, "WithNamespace", flags.namespace)
          /\ flags.namespace = "" => ~HasOptNamed(SrvResolver.opts, "WithNamespace")
          /\ \A i \in DOMAIN SrvResolver.opts :
                /\ SrvResolver.opts[i].opt = "WithHandler"
                      => SrvResolver.opts[i].arg = flags.handler
                /\ SrvResolver.opts[i].opt = "WithNamespace"
                      => SrvResolver.opts[i].arg = flags.namespace
    /\ pc = "before_assemble" =>
          /\ flags.handler # "" =>
                /\ newHandler = Handlers[flags.handler]
                /\ HasOpt(resolverOpts, "WithHandler", flags.handler)
          /\ flags.handler = "" => newHandler = RpcNewHandler
    /\ At \in {"before_address", "before_namespace", "before_router",
               "before_handler"} => ~HasOptNamed(resolverOpts, "WithHandler")

\* C3 witness: handler api and namespace acme threaded into a host resolver.
C3_Witness ==
    /\ Len(Server) = 1
    /\ flags.handler = "api" /\ flags.namespace = "acme"
    /\ SrvResolver.factory = "host.NewResolver"
    /\ SrvResolver.opts = <<[opt |-> "WithNamespace", arg |-> "acme"],
                            [opt |-> "WithHandler", arg |-> "api"]>>

\* The five CORS headers and their fixed values, as the response must carry them.
CorsHeaders ==
    [k \in {"Access-Control-Allow-Origin", "Access-Control-Allow-Headers",
            "Access-Control-Allow-Methods", "Access-Control-Expose-Headers",
            "Access-Control-Allow-Credentials"} |->
        CASE k = "Access-Control-Allow-Origin" -> <<"*">>
          [] k = "Access-Control-Allow-Headers" ->
                <<"Content-Type,AccessToken,X-CSRF-Token,Authorization,Token,X-Token,X-User-Id">>
          [] k = "Access-Control-Allow-Methods" -> <<"POST,GET,OPTIONS,DELETE,PUT">>
          [] k = "Access-Control-Expose-Headers" ->
                <<"Content-Length,Access-Control-Allow-Origin,Access-Control-Allow-Headers,Content-Type">>
          [] OTHER -> <<"true">>]

\* A request was served by this step, and its method was m.
Served(m) == served' = served + 1 /\ reqMethod' = m

\* C4: a request whose method is OPTIONS gets exactly the five CORS headers
\* and status 200, and the wrapped handler is not invoked for it.
C4_OptionsShortCircuits ==
    [][Served("OPTIONS") =>
          /\ hdr' = CorsHeaders
          /\ status' = 200
          /\ wrappedCalls' = wrappedCalls
          /\ hdrAtCall' = hdrAtCall]_vars

\* C4 witness: an OPTIONS request answered after the wrapped handler had
\* served an earlier request.
C4_Witness ==
    /\ served = 2
    /\ reqMethod = "OPTIONS"
    /\ status = 200
    /\ wrappedCalls = 1

\* C5: a request whose method is not OPTIONS invokes the wrapped handler
\* exactly once, with the five CORS headers already set when it is invoked;
\* every response served carries the five headers.
C5_PassThroughAfterHeaders ==
    /\ [][\A m \in Methods \ {"OPTIONS"} :
            Served(m) =>
               /\ wrappedCalls' = wrappedCalls + 1
               /\ hdrAtCall' = CorsHeaders
               /\ \A k \in DOMAIN CorsHeaders : k \in DOMAIN hdr' /\ hdr'[k] = CorsHeaders[k]]_vars
    /\ [](served > 0 =>
            \A k \in DOMAIN CorsHeaders : k \in DOMAIN hdr /\ hdr[k] = CorsHeaders[k])

\* C5 witness: a request with method "options", which is not http.MethodOptions,
\* failed by the wrapped handler.
C5_Witness ==
    /\ served = 1
    /\ reqMethod = "options"
    /\ status = 500
    /\ wrappedCalls = 1
    /\ hdrAtCall = CorsHeaders

\* The state of the lifecycle cmd.Action drives, read off the position of the
\* main goroutine and what Start and Stop returned.
Lifecycle ==
    CASE At \in BeforePcs \cup {"action", "fatal"} -> "Idle"
      [] At = "starting" -> "Starting"
      [] At \in {"notify", "wait"} -> "Running"
      [] At \in {"stop", "stopping"} -> "Stopping"
      [] OTHER -> IF startRet = Nil /\ stopRet = Nil THEN "Stopped" ELSE "Failed"

\* C6 as stated: once Start has succeeded, a delivered signal makes the wait
\* return and Stop run exactly once; read on a process that has ended.
C6_Original ==
    (startRet = Nil /\ delivered # <<>> /\ ~Alive) => stopCalls = 1

\* C6 amended: once Start has succeeded and signal.Notify is in force, a
\* delivered SIGINT or SIGTERM makes the wait return and Stop is invoked
\* exactly once; Stop is never invoked twice, whatever signals follow, and
\* never before a signal was received.  (A signal that arrives between the
\* return of Start and signal.Notify ends the process without Stop.)
C6_StopOnceAfterRegisteredSignal ==
    /\ [](/\ stopCalls <= 1
          /\ stopCalls = 1 => Len(received) = 1 /\ startRet = Nil
          /\ registered => startRet = Nil
          /\ pc = "killed" => ~registered /\ stopCalls = 0
          /\ (registered /\ ~Alive) => stopCalls = 1)
    /\ [][stopCalls = 1 => stopCalls' = 1]_vars
    /\ (registered /\ delivered # <<>>) ~> (stopCalls = 1)

\* C6 witness: Stop was invoked once, and a second signal arrived after it.
C6_Witness ==
    /\ stopCalls = 1
    /\ Len(delivered) = 2
    /\ Len(received) = 1
    /\ pc = "exited"
    /\ quit = <<delivered[2]>>

\* C7: when Start returns an error, Action returns that error without
\* registering for signals, waiting or calling Stop; Start is called once
\* only; and Run exits with a non-zero status.
C7_StartErrorPropagates ==
    /\ startCalls <= 1
    /\ startRet \notin {Pending, Nil} =>
          /\ actionResult = startRet
          /\ ~registered /\ quit = <<>> /\ received = <<>>
          /\ stopCalls = 0 /\ stopRet = Pending
          /\ startCalls = 1
          /\ ~listening
          /\ At \in {"returned", "exited"}
          /\ pc = "exited" => exitCode # 0 /\ exitCode = 255

\* C7 witness: the port was taken, and the process has exited.
C7_Witness ==
    /\ pc = "exited"
    /\ startRet = "listen: address already in use"
    /\ exitCode = 255

LifecycleSteps ==
    {<<"Idle", "Starting">>, <<"Starting", "Running">>, <<"Starting", "Failed">>,
     <<"Running", "Stopping">>, <<"Stopping", "Stopped">>, <<"Stopping", "Failed">>}

\* C8: the lifecycle moves only along Idle -> Starting -> Running ->
\* Stopping -> Stopped, or to Failed from Starting or Stopping; Action returns
\* nil exactly when it ends in Stopped, and the error of the failing call
\* exactly when it ends in Failed.
C8_LifecycleTransitions ==
    /\ [][Lifecycle' # Lifecycle => <<Lifecycle, Lifecycle'>> \in LifecycleSteps]_vars
    /\ []((actionResult = Nil) <=> (Lifecycle = "Stopped"))
    /\ []((actionResult \notin {Pending, Nil}) <=> (Lifecycle = "Failed"))
    /\ [](Lifecycle = "Failed" =>
            actionResult = IF startRet # Nil THEN startRet ELSE stopRet)
    /\ [](Lifecycle \in {"Idle", "Starting", "Running", "Stopping"}
            => actionResult = Pending)

\* C8 witness: Failed, entered from Stopping.
C8_Witness ==
    /\ Lifecycle = "Failed"
    /\ startRet = Nil
    /\ stopRet = "stop: listener already closed"
    /\ pc = "exited"

\* C9 as stated: a bind address that is empty or malformed makes Before return
\* an error; Before never returns nil with the server built on another
\* address than the configured one.
C9_Claim ==
    beforeResult = Nil =>
        /\ ~Malformed(flags.server_address)
        /\ Server[1].address = flags.server_address

\* C10: once signal.Notify is in force, a signal is kept in the one slot of
\* quit when the slot is free and discarded when it is taken, so at most one
\* is pending; the receive takes exactly one signal; and a signal pending
\* before the main goroutine receives makes the wait return, so that Stop is
\* eventually invoked.
C10_PendingSignalWakesWait ==
    /\ [](Len(quit) <= 1 /\ Len(received) <= 1)
    /\ [](registered =>
            Len(delivered) = Len(quit) + Len(received) + Len(discarded))
    /\ [][(registered /\ delivered' # delivered) =>
            IF quit = <<>>
            THEN quit' = <<delivered'[Len(delivered')]>> /\ discarded' = discarded
            ELSE quit' = quit /\ Len(discarded') = Len(discarded) + 1]_vars
    /\ [][received' # received =>
            /\ Len(quit) = 1 /\ quit' = <<>>
            /\ received' = <<quit[1]>>
            /\ pc = "wait" /\ pc' = "stop"]_vars
    /\ (pc = "wait" /\ Len(quit) = 1) ~> (stopCalls = 1)

\* C10 witness: before the receive, one signal is pending and another was
\* discarded.
C10_Witness ==
    /\ pc = "wait"
    /\ Len(quit) = 1
    /\ Len(discarded) = 1
    /\ received = <<>>

====
